---- MODULE Spec2Model ----
(***************************************************************************)
(* Model of the SimpleFin -> Postgres synchronisation layer:               *)
(*   src/src/services/db.py                                (the upserts)   *)
(*   src/src/data-sync-scripts/simple-fin-chase-transactions.py (the loop) *)
(*                                                                         *)
(* Python dicts are functions whose DOMAIN is the set of keys present, so  *)
(* d['k'] on a missing key is a KeyError and d.get('k', v) is Get(d,k,v).  *)
(* A table is the set of its committed rows; a unique index is what the    *)
(* ON CONFLICT clause of each statement looks rows up by.                  *)
(* Timestamps (timestamptz) are represented by their epoch seconds, money  *)
(* by integer cents.                                                       *)
(***************************************************************************)
EXTENDS Integers, Sequences, FiniteSets, TLC

\* ------------------------------------------------------------------ bounds
\* total number of sync_account_from_api calls explored in one behaviour
MaxCalls == 3
\* largest number of accounts in one api_response
MaxAccounts == 2

\* ------------------------------------------------------- dicts and floats
Get(d, k, default) == IF k \in DOMAIN d THEN d[k] ELSE default

With(d, k, v) == [x \in DOMAIN d \cup {k} |-> IF x = k THEN v ELSE d[x]]

Without(d, k) == [x \in DOMAIN d \ {k} |-> d[x]]

\* float(s) for the decimal strings the feed carries; the value is in cents.
\* A string outside the table is not a number: float raises ValueError.
FloatTable ==
  [s \in {"100.00", "150.00", "90.00", "140.00", "5.00", "-7.25"} |->
     CASE s = "100.00" -> 10000
       [] s = "150.00" -> 15000
       [] s = "90.00"  -> 9000
       [] s = "140.00" -> 14000
       [] s = "5.00"   -> 500
       [] s = "-7.25"  -> 0 - 725]

IsFloat(s) == s \in DOMAIN FloatTable

Float(s) == FloatTable[s]

\* to_timestamp(epoch): timestamptz of an epoch; the exact instant is kept
\* (no truncation to a calendar day).
to_timestamp(epoch) == epoch

\* ------------------------------------------------------------ input space
AccountIds == {"A", "B"}

\* epochs of the feed: two balance dates of one calendar day, and two
\* transaction times a day apart
BalanceDates == {86400, 90000}

TransactedAts == {86400, 172800}

\* an account dict of the response; the keys 'available-balance' and
\* 'balance-date' are spelled with an underscore here
BaseAccount(id) ==
  [id |-> id,
   name |-> IF id = "A" THEN "Checking" ELSE "Savings",
   currency |-> "USD",
   balance |-> "100.00",
   available_balance |-> "90.00",
   balance_date |-> 86400]

AllAccountFields ==
  [id : AccountIds,
   name : {"Checking", "Savings", "Joint"},
   currency : {"USD", "EUR"},
   balance : {"100.00", "150.00"},
   available_balance : {"90.00", "140.00"},
   balance_date : BalanceDates]

AccountKeys == {"name", "currency", "balance", "available_balance", "balance_date"}

Diff(m, b) == {key \in AccountKeys : m[key] # b[key]}

BaseTxn(id) ==
  [id |-> id, posted |-> 1, amount |-> "5.00", description |-> "coffee",
   payee |-> "cafe", memo |-> "card", transacted_at |-> 86400, pending |-> FALSE]

TextKeys == {"description", "payee", "memo"}

RECURSIVE WithoutAll(_, _)
WithoutAll(d, ks) ==
  IF ks = {} THEN d
  ELSE LET key == CHOOSE x \in ks : TRUE
       IN  WithoutAll(Without(d, key), ks \ {key})

\* the account dict of account id carrying the batch b
Account(id, b) == With(BaseAccount(id), "transactions", b)

\* Each behaviour syncs from one feed: the account dicts the upstream API
\* serves over its runs.  A feed varies one part of the payload.

\* account A with its base fields, with another name, currency or balance
\* and with every field changed, without a transactions key; account B
AccountFeed ==
  {m \in AllAccountFields :
     /\ m.id = "A"
     /\ m.name \in {"Checking", "Joint"}
     /\ \/ Diff(m, BaseAccount("A")) \in {{}, {"name"}, {"currency"}, {"balance"}}
        \/ Diff(m, BaseAccount("A")) = AccountKeys}
  \cup {Account("B", <<>>)}

\* account A with another balance, available balance or balance date
SnapshotFeed ==
  {m \in AllAccountFields :
     /\ m.id = "A"
     /\ Diff(m, BaseAccount("A"))
          \in {{}, {"balance"}, {"available_balance"}, {"balance_date"}}}
  \cup {With(BaseAccount("B"), "balance_date", 90000)}

\* the posted indicator: 1, 0, another value, no key
PostedFeed ==
  {Account("A", <<With(BaseTxn("t1"), "posted", v)>>) : v \in {0, 1, 2}}
  \cup {Account("A", <<Without(BaseTxn("t1"), "posted")>>),
        Account("A", <<BaseTxn("t2"), Without(BaseTxn("t1"), "posted")>>),
        Account("A", <<BaseTxn("t2"), With(BaseTxn("t1"), "posted", 0)>>)}

\* the optional text keys: every subset of description, payee, memo left out
TextFeed ==
  {Account("A", <<WithoutAll(BaseTxn("t1"), ks)>>) : ks \in SUBSET TextKeys}

\* the optional keys given with other values, and none of them given
PendingFeed ==
  {Account("A", <<With(With(BaseTxn("t1"), "description", "tea"), "memo", "cash")>>),
   Account("A", <<With(BaseTxn("t1"), "pending", TRUE)>>),
   Account("A", <<Without(BaseTxn("t1"), "pending")>>),
   Account("A", <<WithoutAll(BaseTxn("t1"), TextKeys \cup {"pending"})>>),
   Account("A", <<WithoutAll(BaseTxn("t2"), TextKeys \cup {"pending"})>>)}

\* a transaction seen again with other values, in a later sync or later in
\* the same batch, for the same or for another account
UpdateFeed ==
  {Account("A", <<With(With(BaseTxn("t1"), "pending", TRUE), "posted", 0),
                  BaseTxn("t2")>>),
   Account("A", <<With(With(BaseTxn("t1"), "pending", TRUE), "posted", 0),
                  With(BaseTxn("t1"), "amount", "-7.25")>>),
   Account("A", <<With(BaseTxn("t1"), "transacted_at", 172800)>>),
   Account("A", <<With(With(BaseTxn("t1"), "payee", "bar"), "amount", "-7.25")>>),
   Account("B", <<With(BaseTxn("t1"), "memo", "cash")>>),
   Account("B", <<BaseTxn("t2"), BaseTxn("t2")>>)}

\* batches with a record that cannot be written, for account B and, next
\* to it, account A
FailureFeed ==
  {Account("B", <<Without(BaseTxn("t2"), key)>>) : key \in {"id", "transacted_at"}}
  \cup {Account("B", <<BaseTxn("t2"), Without(BaseTxn("t1"), "amount")>>),
        Account("B", <<BaseTxn("t1"), With(BaseTxn("t2"), "amount", "abc")>>),
        Account("A", <<BaseTxn("t1")>>),
        Account("A", <<With(BaseTxn("t1"), "amount", "-7.25"),
                       Without(BaseTxn("t1"), "amount")>>)}

\* transactions of two accounts on one day at different times, and one on
\* the day after
QueryFeed ==
  {Account("A", <<BaseTxn("t1")>>),
   Account("B", <<With(BaseTxn("t2"), "transacted_at", 90000)>>),
   Account("B", <<With(With(BaseTxn("t3"), "transacted_at", 172800), "payee", "bar")>>),
   Account("A", <<With(BaseTxn("t3"), "amount", "-7.25")>>)}

Feeds ==
  {AccountFeed, SnapshotFeed, PostedFeed, TextFeed, PendingFeed, UpdateFeed,
   FailureFeed, QueryFeed}

\* ------------------------------------------------------------------ state
VARIABLES
  accounts,           \* committed rows of table accounts
  account_snapshots,  \* committed rows of table account_snapshots
  transactions,       \* committed rows of table transactions
  clock,              \* the database clock read by NOW()
  api_response,       \* the accounts list sync_all_accounts iterates over
  k,                  \* position of the for loop of sync_all_accounts
  pc,                 \* where the script is
  account_data,       \* argument of the current / last sync_account_from_api
  cur,                \* rows of transactions as seen inside the open scope
  i,                  \* position of the for loop of update_transactions_table
  error,              \* exception raised by the last sync_account_from_api
  raised_in,          \* the db.py function that raised it
  calls,              \* number of sync_account_from_api calls so far
  feed,               \* the account dicts the upstream API serves
  before,             \* history: the three tables when the last call began
  repeat,             \* history: the last call re-applied the payload before it
  done,               \* history: loop positions of this run that returned
  synced,             \* history: account IDs whose account upsert committed
  conn,               \* the connection of the script: "open" or "closed"
  row_count,          \* what the last account or snapshot upsert returned
  query,              \* the call of get_todays_transactions by the agent
  proc,               \* two scripts at once: each one's sync_account_from_api
  commits             \* history: <<script, table>> of their commits, in order

vars == <<accounts, account_snapshots, transactions, clock, api_response, k,
          pc, account_data, cur, i, error, raised_in, calls, feed, before,
          repeat, done, synced, conn, row_count, query, proc,
          commits>>

\* the state of one script running alone
script == <<api_response, k, pc, account_data, cur, i, error, raised_in, calls,
            feed, repeat, done, synced, conn, row_count, query>>

tables == <<accounts, account_snapshots, transactions>>

\* the keys of the rows of a table
AccountIdsOf(table) == {r.id : r \in table}

SnapshotKeysOf(table) == {<<r.account_id, r.balance_date>> : r \in table}

TransactionIdsOf(table) == {r.id : r \in table}

\* ----------------------------------------------------------------- get_db
\* conn = psycopg.connect(DATABASE_URL)
Connect == "open"

\* as Close, but the connection is left as it is
CloseNothing(c) == c

\* finally: conn.close()
Close(c) == "closed"

\* with get_db() as conn: the body ran to its end, conn.commit()
Commit(committed, working) == working

\* as Rollback, but the writes of the failed body stay
RollbackKeepsWrites(committed, working) == working

\* with get_db() as conn: the body raised, conn.rollback() and re-raise
Rollback(committed, working) == committed

\* NOW(): start time of the database transaction; the clock moves on when
\* the scope is left, so that two scopes never read the same time
NOW == clock

\* --------------------------------------------------- update_accounts_table
\* as AccountRow, but account_id and name swapped in the parameter tuple
AccountRowSwapped(account_id, name, currency, balance, available_balance, balance_date, now) ==
  [id |-> name, name |-> account_id, currency |-> currency,
   balance |-> balance, available_balance |-> available_balance,
   balance_date |-> to_timestamp(balance_date), updated_at |-> now]

\* the row proposed for insertion; updated_at is not in the column list and
\* takes the time of the insert
AccountRow(account_id, name, currency, balance, available_balance, balance_date, now) ==
  [id |-> account_id, name |-> name, currency |-> currency,
   balance |-> balance, available_balance |-> available_balance,
   balance_date |-> to_timestamp(balance_date), updated_at |-> now]

\* as AccountsDoUpdate, but SET balance = accounts.balance + EXCLUDED.balance
AccountsDoUpdateAdds(old, excluded, now) ==
  [old EXCEPT !.name = excluded.name,
              !.balance = old.balance + excluded.balance,
              !.available_balance = excluded.available_balance,
              !.balance_date = excluded.balance_date,
              !.updated_at = now]

\* as AccountsDoUpdate, but the SET list has no name = EXCLUDED.name
AccountsDoUpdateKeepsName(old, excluded, now) ==
  [old EXCEPT !.balance = excluded.balance,
              !.available_balance = excluded.available_balance,
              !.balance_date = excluded.balance_date,
              !.updated_at = now]

\* ON CONFLICT (id) DO UPDATE SET ... of the accounts statement
AccountsDoUpdate(old, excluded, now) ==
  [old EXCEPT !.name = excluded.name,
              !.balance = excluded.balance,
              !.available_balance = excluded.available_balance,
              !.balance_date = excluded.balance_date,
              !.updated_at = now]

\* as AccountsConflict, but the conflict target is the name column
AccountsConflictByName(table, excluded) == {r \in table : r.name = excluded.name}

\* rows the unique index on accounts(id) finds for the proposed row
AccountsConflict(table, excluded) == {r \in table : r.id = excluded.id}

\* INSERT INTO accounts ... ON CONFLICT (id) DO UPDATE
AccountsUpsert(table, excluded, now) ==
  LET hit == AccountsConflict(table, excluded) IN
    IF hit = {} THEN table \cup {excluded}
    ELSE (table \ hit) \cup {AccountsDoUpdate(r, excluded, now) : r \in hit}

\* ------------------------------------------ update_account_snapshots_table
\* the row proposed for insertion; snapshot_taken_at is not in the column
\* list and takes the time of the insert
SnapshotRow(account_id, balance, available_balance, balance_date, now) ==
  [account_id |-> account_id, balance |-> balance,
   available_balance |-> available_balance,
   balance_date |-> to_timestamp(balance_date), snapshot_taken_at |-> now]

\* as SnapshotsDoUpdate, but the SET list has no available_balance
SnapshotsDoUpdateKeepsAvailable(old, excluded, now) ==
  [old EXCEPT !.balance = excluded.balance,
              !.snapshot_taken_at = now]

\* ON CONFLICT (account_id, balance_date) DO UPDATE SET ...
SnapshotsDoUpdate(old, excluded, now) ==
  [old EXCEPT !.balance = excluded.balance,
              !.available_balance = excluded.available_balance,
              !.snapshot_taken_at = now]

\* as SnapshotsConflict, but the conflict target is account_id alone
SnapshotsConflictByAccount(table, excluded) ==
  {r \in table : r.account_id = excluded.account_id}

\* rows the unique index on account_snapshots(account_id, balance_date) finds
SnapshotsConflict(table, excluded) ==
  {r \in table : /\ r.account_id = excluded.account_id
                 /\ r.balance_date = excluded.balance_date}

SnapshotsUpsert(table, excluded, now) ==
  LET hit == SnapshotsConflict(table, excluded) IN
    IF hit = {} THEN table \cup {excluded}
    ELSE (table \ hit) \cup {SnapshotsDoUpdate(r, excluded, now) : r \in hit}

\* ----------------------------------------------- update_transactions_table
\* keys read with txn[...]: a record without one of them raises KeyError
RequiredKeys == {"amount", "id", "posted", "transacted_at"}

\* the exception the Python part of one loop iteration raises, if any
TxnException(txn) ==
  IF "amount" \notin DOMAIN txn THEN "KeyError"
  ELSE IF ~IsFloat(txn["amount"]) THEN "ValueError"
  ELSE IF RequiredKeys \ DOMAIN txn # {} THEN "KeyError"
  ELSE "none"

\* as PostedFlag, but the truth value of txn['posted']
PostedFlagTruthy(txn) == txn["posted"] # 0

\* txn['posted'] == 1
PostedFlag(txn) == txn["posted"] = 1

\* as TextOf, but txn.get(key): a missing key reads as None
TextOfNone(txn, key) == Get(txn, key, "None")

\* txn.get('description', ''), txn.get('payee', ''), txn.get('memo', '')
TextOf(txn, key) == Get(txn, key, "")

\* txn.get('pending', False)
PendingOf(txn) == Get(txn, "pending", FALSE)

\* the parameter tuple of the INSERT, as the proposed row
TransactionRow(account_id, txn, now) ==
  [id |-> txn["id"],
   account_id |-> account_id,
   posted |-> PostedFlag(txn),
   amount |-> Float(txn["amount"]),
   description |-> TextOf(txn, "description"),
   payee |-> TextOf(txn, "payee"),
   memo |-> TextOf(txn, "memo"),
   transacted_at |-> to_timestamp(txn["transacted_at"]),
   pending |-> PendingOf(txn),
   last_updated_at |-> now]

\* as TransactionsDoUpdate, but the SET list has no pending = EXCLUDED.pending
TransactionsDoUpdateKeepsPending(old, excluded, now) ==
  [old EXCEPT !.posted = excluded.posted,
              !.amount = excluded.amount,
              !.description = excluded.description,
              !.payee = excluded.payee,
              !.memo = excluded.memo,
              !.transacted_at = excluded.transacted_at,
              !.last_updated_at = now]

\* as TransactionsDoUpdate, but the SET list has account_id = EXCLUDED.account_id
TransactionsDoUpdateMovesOwner(old, excluded, now) ==
  [excluded EXCEPT !.last_updated_at = now]

\* ON CONFLICT (id) DO UPDATE SET ... of the transactions statement
TransactionsDoUpdate(old, excluded, now) ==
  [old EXCEPT !.posted = excluded.posted,
              !.amount = excluded.amount,
              !.description = excluded.description,
              !.payee = excluded.payee,
              !.memo = excluded.memo,
              !.transacted_at = excluded.transacted_at,
              !.pending = excluded.pending,
              !.last_updated_at = now]

\* rows the unique index on transactions(id) finds for the proposed row
TransactionsConflict(table, excluded) == {r \in table : r.id = excluded.id}

\* as TransactionsUpsert, but the rows of the account are deleted and the
\* proposed row inserted
TransactionsUpsertReplaces(table, excluded, now) ==
  {r \in table : r.account_id # excluded.account_id} \cup {excluded}

TransactionsUpsert(table, excluded, now) ==
  LET hit == TransactionsConflict(table, excluded) IN
    IF hit = {} THEN table \cup {excluded}
    ELSE (table \ hit) \cup {TransactionsDoUpdate(r, excluded, now) : r \in hit}

\* cur.rowcount after INSERT ... ON CONFLICT DO UPDATE: the rows inserted
\* plus the rows updated; hit is what the conflict target found
RowCount(hit) == IF hit = {} THEN 1 ELSE Cardinality(hit)

\* 'transactions' in account_data and account_data['transactions']
HasTransactions(data) ==
  /\ "transactions" \in DOMAIN data
  /\ data["transactions"] # <<>>

\* ------------------------------------------------- get_todays_transactions
\* DATE(timestamptz): the calendar day of the epoch seconds, counted from
\* the epoch, in a session whose time zone is UTC
DATE(epoch) == epoch \div 86400

\* CURRENT_DATE at the time of the query, as a day number
CurrentDates == {2, 3}

\* as TargetDay, but the transactions of CURRENT_DATE are asked for
TargetDayToday(current_date) == current_date

\* CURRENT_DATE - INTERVAL '1 day'
TargetDay(current_date) == current_date - 1

\* FROM transactions t JOIN accounts a ON t.account_id = a.id WHERE ...
Selected(current_date) ==
  {ta \in transactions \X accounts :
     /\ ta[1].account_id = ta[2].id
     /\ DATE(ta[1].transacted_at) = TargetDay(current_date)}

\* the SELECT list, as dict(zip(columns, row))
QueryRecord(t, a) ==
  [account_name |-> a.name, amount |-> t.amount, description |-> t.description,
   payee |-> t.payee, memo |-> t.memo, transacted_at |-> t.transacted_at,
   pending |-> t.pending]

\* ORDER BY t.transacted_at DESC: every order of the selected rows that is
\* descending; rows of equal time come in any order
Ordered(rows) ==
  {f \in [1..Cardinality(rows) -> rows] :
     /\ \A x, y \in DOMAIN f : x # y => f[x] # f[y]
     /\ \A x, y \in DOMAIN f :
          x < y => f[x][1].transacted_at >= f[y][1].transacted_at}

\* the lists cur.fetchall() can give, as the list of dicts returned
QueryResults(current_date) ==
  {[j \in DOMAIN f |-> QueryRecord(f[j][1], f[j][2])] :
     f \in Ordered(Selected(current_date))}

\* no call of get_todays_transactions is being looked at
NoQuery == [status |-> "none", current_date |-> 0, rows |-> <<>>]

\* ------------------------------------------------------------- the script
Init ==
  /\ accounts = {}
  /\ account_snapshots = {}
  /\ transactions = {}
  /\ clock = 1
  /\ api_response = <<>>
  /\ k = 1
  /\ pc = "idle"
  /\ account_data = <<>>
  /\ cur = {}
  /\ i = 1
  /\ error = "none"
  /\ raised_in = "none"
  /\ calls = 0
  /\ feed \in Feeds
  /\ before = [accounts |-> {}, account_snapshots |-> {}, transactions |-> {}]
  /\ repeat = FALSE
  /\ done = {}
  /\ synced = {}
  /\ conn = "closed"
  /\ row_count = 0
  /\ query = NoQuery
  /\ proc = <<>>
  /\ commits = <<>>

\* sync_all_accounts(data): the script starts on a fetched response
SyncAllAccounts ==
  /\ pc = "idle"
  /\ calls < MaxCalls
  /\ \E n \in 0..MaxAccounts :
       /\ n <= MaxCalls - calls
       /\ \E resp \in [1..n -> feed] : api_response' = resp
  /\ k' = 1
  /\ pc' = "loop"
  /\ done' = {}
  /\ UNCHANGED <<accounts, account_snapshots, transactions, clock, account_data,
                 cur, i, error, raised_in, calls, feed, before, repeat, synced>>
  /\ UNCHANGED <<conn, row_count, query>>
  /\ UNCHANGED <<proc, commits>>

\* for account in api_response.get('accounts', []): sync_account_from_api(account)
SyncAccountFromApi ==
  /\ pc = "loop"
  /\ k <= Len(api_response)
  /\ account_data' = api_response[k]
  /\ repeat' = (calls > 0 /\ error # "DatabaseError" /\ account_data = api_response[k])
  /\ before' = [accounts |-> accounts,
                account_snapshots |-> account_snapshots,
                transactions |-> transactions]
  /\ calls' = calls + 1
  /\ error' = "none"
  /\ raised_in' = "none"
  /\ pc' = "accounts"
  /\ UNCHANGED <<accounts, account_snapshots, transactions, clock,
                 api_response, k, cur, i, feed, done, synced>>
  /\ UNCHANGED <<conn, row_count, query>>
  /\ UNCHANGED <<proc, commits>>

\* the loop of sync_all_accounts is exhausted: print and return, the
\* response and the loop position go out of scope
SyncAllAccountsEnd ==
  /\ pc = "loop"
  /\ k > Len(api_response)
  /\ pc' = "idle"
  /\ api_response' = <<>>
  /\ k' = 1
  /\ done' = {}
  /\ UNCHANGED <<accounts, account_snapshots, transactions, clock,
                 account_data, cur, i, error, raised_in, calls,
                 feed, before, repeat, synced>>
  /\ UNCHANGED <<conn, row_count, query>>
  /\ UNCHANGED <<proc, commits>>

\* an exception leaves sync_account_from_api and sync_all_accounts: nothing
\* catches it, the script ends
Raise(e, function) ==
  /\ error' = e
  /\ raised_in' = function
  /\ pc' = "idle"
  /\ UNCHANGED <<api_response, k, account_data, calls, feed, before, repeat, done>>

\* sync_account_from_api returns, the loop goes to the next account
Return ==
  /\ pc' = "loop"
  /\ k' = k + 1
  /\ done' = done \cup {k}
  /\ UNCHANGED <<api_response, account_data, error, raised_in, calls, feed,
                 before, repeat>>

\* update_accounts_table(...): connect, one upsert, commit
UpdateAccountsTable ==
  /\ pc = "accounts"
  /\ clock' = clock + 1
  /\ LET d == account_data
         row == AccountRow(d["id"], d["name"], d["currency"], Float(d["balance"]),
                           Float(d["available_balance"]), d["balance_date"], NOW)
     IN  accounts' = Commit(accounts, AccountsUpsert(accounts, row, NOW))
  /\ pc' = "snapshots"
  /\ synced' = synced \cup {account_data["id"]}
  /\ UNCHANGED <<account_snapshots, transactions, api_response, k, account_data,
                 cur, i, error, raised_in, calls, feed, before, repeat, done>>
  /\ conn' = Close(Connect)
  /\ LET d == account_data
         row == AccountRow(d["id"], d["name"], d["currency"], Float(d["balance"]),
                           Float(d["available_balance"]), d["balance_date"], NOW)
     IN  row_count' = RowCount(AccountsConflict(accounts, row))
  /\ UNCHANGED query
  /\ UNCHANGED <<proc, commits>>

\* update_accounts_table(...): connect or execute fails, rollback, re-raise
UpdateAccountsTableFails ==
  /\ pc = "accounts"
  /\ clock' = clock + 1
  /\ LET d == account_data
         row == AccountRow(d["id"], d["name"], d["currency"], Float(d["balance"]),
                           Float(d["available_balance"]), d["balance_date"], NOW)
     IN  accounts' = Rollback(accounts, AccountsUpsert(accounts, row, NOW))
  /\ Raise("DatabaseError", "update_accounts_table")
  /\ UNCHANGED <<account_snapshots, transactions, cur, i, synced>>
  /\ conn' = Close(Connect)
  /\ UNCHANGED <<row_count, query>>
  /\ UNCHANGED <<proc, commits>>

\* update_account_snapshots_table(...): connect, one upsert, commit
UpdateAccountSnapshotsTable ==
  /\ pc = "snapshots"
  /\ clock' = clock + 1
  /\ LET d == account_data
         row == SnapshotRow(d["id"], Float(d["balance"]),
                            Float(d["available_balance"]), d["balance_date"], NOW)
     IN  account_snapshots' =
           Commit(account_snapshots, SnapshotsUpsert(account_snapshots, row, NOW))
  /\ pc' = "transactions"
  /\ UNCHANGED <<accounts, transactions, api_response, k, account_data, cur, i,
                 error, raised_in, calls, feed, before, repeat, done, synced>>
  /\ conn' = Close(Connect)
  /\ LET d == account_data
         row == SnapshotRow(d["id"], Float(d["balance"]),
                            Float(d["available_balance"]), d["balance_date"], NOW)
     IN  row_count' = RowCount(SnapshotsConflict(account_snapshots, row))
  /\ UNCHANGED query
  /\ UNCHANGED <<proc, commits>>

UpdateAccountSnapshotsTableFails ==
  /\ pc = "snapshots"
  /\ clock' = clock + 1
  /\ LET d == account_data
         row == SnapshotRow(d["id"], Float(d["balance"]),
                            Float(d["available_balance"]), d["balance_date"], NOW)
     IN  account_snapshots' =
           Rollback(account_snapshots, SnapshotsUpsert(account_snapshots, row, NOW))
  /\ Raise("DatabaseError", "update_account_snapshots_table")
  /\ UNCHANGED <<accounts, transactions, cur, i, synced>>
  /\ conn' = Close(Connect)
  /\ UNCHANGED <<row_count, query>>
  /\ UNCHANGED <<proc, commits>>

\* if 'transactions' in account_data and account_data['transactions']: false
SkipTransactions ==
  /\ pc = "transactions"
  /\ ~HasTransactions(account_data)
  /\ Return
  /\ UNCHANGED <<accounts, account_snapshots, transactions, clock, cur, i, synced>>
  /\ UNCHANGED <<conn, row_count, query>>
  /\ UNCHANGED <<proc, commits>>

\* update_transactions_table(...): with get_db() as conn, before the loop
UpdateTransactionsTable ==
  /\ pc = "transactions"
  /\ HasTransactions(account_data)
  /\ cur' = transactions
  /\ i' = 1
  /\ pc' = "txn_loop"
  /\ UNCHANGED <<accounts, account_snapshots, transactions, clock, api_response, k,
                 account_data, error, raised_in, calls, feed, before, repeat,
                 done, synced>>
  /\ conn' = Connect
  /\ UNCHANGED <<row_count, query>>
  /\ UNCHANGED <<proc, commits>>

\* one iteration of for txn in transactions: the upsert is executed
ExecuteTransaction ==
  /\ pc = "txn_loop"
  /\ i <= Len(account_data["transactions"])
  /\ LET txn == account_data["transactions"][i] IN
       /\ TxnException(txn) = "none"
       /\ cur' = TransactionsUpsert(cur, TransactionRow(account_data["id"], txn, NOW), NOW)
  /\ i' = i + 1
  /\ UNCHANGED <<accounts, account_snapshots, transactions, clock, api_response,
                 k, pc, account_data, error, raised_in, calls, feed, before,
                 repeat, done, synced>>
  /\ UNCHANGED <<conn, row_count, query>>
  /\ UNCHANGED <<proc, commits>>

\* one iteration raises before the statement is sent (KeyError, ValueError)
ExecuteTransactionRaises ==
  /\ pc = "txn_loop"
  /\ i <= Len(account_data["transactions"])
  /\ LET txn == account_data["transactions"][i] IN
       /\ TxnException(txn) # "none"
       /\ Raise(TxnException(txn), "update_transactions_table")
  /\ transactions' = Rollback(transactions, cur)
  /\ cur' = {}
  /\ clock' = clock + 1
  /\ UNCHANGED <<accounts, account_snapshots, i, synced>>
  /\ conn' = Close(conn)
  /\ UNCHANGED <<row_count, query>>
  /\ UNCHANGED <<proc, commits>>

\* psycopg raises inside the scope: the connection could not be opened
\* (before the first iteration), or cur.execute fails on a record whose
\* parameters could be built (statement rejected, connection lost)
ExecuteTransactionFails ==
  /\ pc = "txn_loop"
  /\ i <= Len(account_data["transactions"])
  /\ i = 1 \/ TxnException(account_data["transactions"][i]) = "none"
  /\ Raise("DatabaseError", "update_transactions_table")
  /\ transactions' = Rollback(transactions, cur)
  /\ cur' = {}
  /\ clock' = clock + 1
  /\ UNCHANGED <<accounts, account_snapshots, i, synced>>
  /\ conn' = Close(conn)
  /\ UNCHANGED <<row_count, query>>
  /\ UNCHANGED <<proc, commits>>

\* the loop is exhausted: return count, get_db commits
CommitTransactions ==
  /\ pc = "txn_loop"
  /\ i > Len(account_data["transactions"])
  /\ transactions' = Commit(transactions, cur)
  /\ cur' = {}
  /\ clock' = clock + 1
  /\ Return
  /\ UNCHANGED <<accounts, account_snapshots, i, synced>>
  /\ conn' = Close(conn)
  /\ UNCHANGED <<row_count, query>>
  /\ UNCHANGED <<proc, commits>>

\* finance-agent main(): get_todays_transactions() returns the list
GetTodaysTransactions ==
  /\ pc = "idle"
  /\ \E current_date \in CurrentDates :
       \E rows \in QueryResults(current_date) :
          query' = [status |-> "returned", current_date |-> current_date,
                    rows |-> rows]
  /\ conn' = Close(Connect)
  /\ pc' = "agent"
  /\ UNCHANGED <<accounts, account_snapshots, transactions, clock, api_response,
                 k, account_data, cur, i, error, raised_in, calls, feed, before,
                 repeat, done, synced, row_count>>
  /\ UNCHANGED <<proc, commits>>

\* get_todays_transactions(): connect or execute fails, rollback, re-raise
GetTodaysTransactionsFails ==
  /\ pc = "idle"
  /\ query' = [status |-> "raised", current_date |-> 0, rows |-> <<>>]
  /\ conn' = Close(Connect)
  /\ pc' = "agent"
  /\ UNCHANGED <<accounts, account_snapshots, transactions, clock, api_response,
                 k, account_data, cur, i, error, raised_in, calls, feed, before,
                 repeat, done, synced, row_count>>
  /\ UNCHANGED <<proc, commits>>

\* finance-agent main() ends, the list goes out of scope
AgentEnd ==
  /\ pc = "agent"
  /\ query' = NoQuery
  /\ pc' = "idle"
  /\ UNCHANGED <<accounts, account_snapshots, transactions, clock, api_response,
                 k, account_data, cur, i, error, raised_in, calls, feed, before,
                 repeat, done, synced, conn, row_count>>
  /\ UNCHANGED <<proc, commits>>

Next ==
  \/ SyncAllAccounts
  \/ SyncAccountFromApi
  \/ SyncAllAccountsEnd
  \/ UpdateAccountsTable
  \/ UpdateAccountsTableFails
  \/ UpdateAccountSnapshotsTable
  \/ UpdateAccountSnapshotsTableFails
  \/ SkipTransactions
  \/ UpdateTransactionsTable
  \/ ExecuteTransaction
  \/ ExecuteTransactionRaises
  \/ ExecuteTransactionFails
  \/ CommitTransactions
  \/ GetTodaysTransactions
  \/ GetTodaysTransactionsFails
  \/ AgentEnd

Spec == Init /\ [][Next]_vars

\* --------------------------------------------- two scripts at the same time
\* Two runs of the script, each in sync_account_from_api on its own account
\* dict, against one database.  A get_db scope with one statement takes
\* effect at its commit.  The batch scope sends one statement per record: a
\* row written in an open scope is locked until the scope commits or rolls
\* back, a statement on a row locked by the other scope waits, and two
\* scopes that wait for each other are a deadlock, which the database ends
\* by failing the statement of one of them.
Procs == {1, 2}

Other(p) == CHOOSE q \in Procs : q # p

\* the account dicts the two runs are given
ConcurrentFeed ==
  {Account("A", <<BaseTxn("t1"), BaseTxn("t2")>>),
   With(With(Account("A", <<With(BaseTxn("t2"), "amount", "-7.25"),
                            With(BaseTxn("t1"), "memo", "cash")>>),
             "balance", "150.00"), "available_balance", "140.00"),
   With(With(Account("A", <<With(BaseTxn("t1"), "payee", "bar")>>),
             "balance_date", 90000), "name", "Joint"),
   Account("B", <<BaseTxn("t3")>>),
   With(BaseAccount("B"), "balance", "150.00")}

\* for txn in transactions: ... cur.execute(...), from record j on
RECURSIVE BatchUpsert(_, _, _, _, _)
BatchUpsert(table, account_id, batch, j, now) ==
  IF j > Len(batch) THEN table
  ELSE BatchUpsert(TransactionsUpsert(table, TransactionRow(account_id, batch[j], now), now),
                   account_id, batch, j + 1, now)

\* the three tables after sync_account_from_api(data) ran alone on tables t
\* and returned, its scopes reading the times now, now + 1, now + 2
SyncedTables(t, data, now) ==
  [accounts |->
     AccountsUpsert(t.accounts,
                    AccountRow(data["id"], data["name"], data["currency"],
                               Float(data["balance"]), Float(data["available_balance"]),
                               data["balance_date"], now), now),
   account_snapshots |->
     SnapshotsUpsert(t.account_snapshots,
                     SnapshotRow(data["id"], Float(data["balance"]),
                                 Float(data["available_balance"]),
                                 data["balance_date"], now + 1), now + 1),
   transactions |->
     IF HasTransactions(data)
     THEN BatchUpsert(t.transactions, data["id"], data["transactions"], 1, now + 2)
     ELSE t.transactions]

NoTables == [accounts |-> {}, account_snapshots |-> {}, transactions |-> {}]

\* the database the two runs start on: empty, or left by an earlier sync
SeedTables ==
  {NoTables,
   SyncedTables(NoTables,
                Account("A", <<With(BaseTxn("t1"), "description", "tea")>>), 1)}

InitConcurrent ==
  /\ \E t \in SeedTables :
       /\ accounts = t.accounts
       /\ account_snapshots = t.account_snapshots
       /\ transactions = t.transactions
       /\ before = t
  /\ clock = 4
  /\ proc \in [Procs -> [pc : {"accounts"}, account_data : ConcurrentFeed,
                         i : {1}, writes : {{}}, now : {0}, error : {"none"}]]
  /\ commits = <<>>
  /\ api_response = <<>>
  /\ k = 1
  /\ pc = "idle"
  /\ account_data = <<>>
  /\ cur = {}
  /\ i = 1
  /\ error = "none"
  /\ raised_in = "none"
  /\ calls = 0
  /\ feed = ConcurrentFeed
  /\ repeat = FALSE
  /\ done = {}
  /\ synced = {}
  /\ conn = "closed"
  /\ row_count = 0
  /\ query = NoQuery

\* update_accounts_table(...) of script p: connect, one upsert, commit
UpdateAccountsTableOf(p) ==
  /\ proc[p].pc = "accounts"
  /\ LET d == proc[p].account_data
         row == AccountRow(d["id"], d["name"], d["currency"], Float(d["balance"]),
                           Float(d["available_balance"]), d["balance_date"], NOW)
     IN  accounts' = Commit(accounts, AccountsUpsert(accounts, row, NOW))
  /\ clock' = clock + 1
  /\ proc' = [proc EXCEPT ![p].pc = "snapshots"]
  /\ commits' = Append(commits, <<p, "accounts">>)
  /\ UNCHANGED <<account_snapshots, transactions, before, script>>

\* update_account_snapshots_table(...) of script p: connect, one upsert, commit
UpdateAccountSnapshotsTableOf(p) ==
  /\ proc[p].pc = "snapshots"
  /\ LET d == proc[p].account_data
         row == SnapshotRow(d["id"], Float(d["balance"]),
                            Float(d["available_balance"]), d["balance_date"], NOW)
     IN  account_snapshots' =
           Commit(account_snapshots, SnapshotsUpsert(account_snapshots, row, NOW))
  /\ clock' = clock + 1
  /\ proc' = [proc EXCEPT ![p].pc = "transactions"]
  /\ commits' = Append(commits, <<p, "account_snapshots">>)
  /\ UNCHANGED <<accounts, transactions, before, script>>

\* script p: if 'transactions' in account_data and ...: false, return
SkipTransactionsOf(p) ==
  /\ proc[p].pc = "transactions"
  /\ ~HasTransactions(proc[p].account_data)
  /\ proc' = [proc EXCEPT ![p].pc = "returned"]
  /\ UNCHANGED <<accounts, account_snapshots, transactions, clock, before,
                 commits, script>>

\* update_transactions_table(...) of script p: with get_db() as conn
UpdateTransactionsTableOf(p) ==
  /\ proc[p].pc = "transactions"
  /\ HasTransactions(proc[p].account_data)
  /\ proc' = [proc EXCEPT ![p].pc = "txn_loop", ![p].i = 1, ![p].writes = {},
                          ![p].now = NOW]
  /\ clock' = clock + 1
  /\ UNCHANGED <<accounts, account_snapshots, transactions, before, commits, script>>

\* the rows of transactions as the open scope of script p reads them: the
\* committed rows, with its own writes over them
Visible(p) ==
  {r \in transactions : r.id \notin TransactionIdsOf(proc[p].writes)}
    \cup proc[p].writes

\* the next statement of script p is on a row the open scope of the other
\* script wrote: it waits for that scope to end
Waits(p) ==
  /\ proc[p].pc = "txn_loop"
  /\ proc[p].i <= Len(proc[p].account_data["transactions"])
  /\ proc[p].account_data["transactions"][proc[p].i]["id"]
       \in TransactionIdsOf(proc[Other(p)].writes)

\* one iteration of for txn in transactions of script p: the upsert is executed
ExecuteTransactionOf(p) ==
  /\ proc[p].pc = "txn_loop"
  /\ proc[p].i <= Len(proc[p].account_data["transactions"])
  /\ ~Waits(p)
  /\ LET txn == proc[p].account_data["transactions"][proc[p].i]
         row == TransactionRow(proc[p].account_data["id"], txn, proc[p].now)
         after == TransactionsUpsert(Visible(p), row, proc[p].now)
     IN  proc' = [proc EXCEPT
                    ![p].writes = {r \in proc[p].writes : r.id # row.id}
                                    \cup {r \in after : r.id = row.id},
                    ![p].i = proc[p].i + 1]
  /\ UNCHANGED <<accounts, account_snapshots, transactions, clock, before,
                 commits, script>>

\* as WriteBack, but the rows the scope did not write are dropped
WriteBackAlone(committed, writes) == writes

\* conn.commit(): the rows the scope wrote take the place of the committed
\* rows of their IDs
WriteBack(committed, writes) ==
  {r \in committed : r.id \notin TransactionIdsOf(writes)} \cup writes

\* the loop of script p is exhausted: return count, get_db commits
CommitTransactionsOf(p) ==
  /\ proc[p].pc = "txn_loop"
  /\ proc[p].i > Len(proc[p].account_data["transactions"])
  /\ transactions' = Commit(transactions, WriteBack(transactions, proc[p].writes))
  /\ proc' = [proc EXCEPT ![p].pc = "returned", ![p].writes = {}]
  /\ commits' = Append(commits, <<p, "transactions">>)
  /\ UNCHANGED <<accounts, account_snapshots, clock, before, script>>

\* both scopes wait for each other: the database fails the statement of
\* script p, cur.execute raises, get_db rolls back and re-raises
DeadlockDetected(p) ==
  /\ Waits(p)
  /\ Waits(Other(p))
  /\ transactions' = Rollback(transactions, WriteBack(transactions, proc[p].writes))
  /\ proc' = [proc EXCEPT ![p].pc = "raised", ![p].writes = {},
                          ![p].error = "DeadlockDetected"]
  /\ UNCHANGED <<accounts, account_snapshots, clock, before, commits, script>>

NextConcurrent ==
  \E p \in Procs :
     \/ UpdateAccountsTableOf(p)
     \/ UpdateAccountSnapshotsTableOf(p)
     \/ SkipTransactionsOf(p)
     \/ UpdateTransactionsTableOf(p)
     \/ ExecuteTransactionOf(p)
     \/ CommitTransactionsOf(p)
     \/ DeadlockDetected(p)

SpecConcurrent == InitConcurrent /\ [][NextConcurrent]_vars

\* ------------------------------------------------------------- properties
\* sync_account_from_api has returned or raised and nothing ran since:
\* account_data is its argument, before the tables it started from
CallEnded == calls > 0 /\ pc \in {"idle", "loop"}

\* the last call got as far as its transactions step
ReachedTransactions ==
  raised_in \notin {"update_accounts_table", "update_account_snapshots_table"}

Batch == Get(account_data, "transactions", <<>>)

\* the rows of a table with the stamp column blanked
Unstamped(table, column) == {[r EXCEPT ![column] = 0] : r \in table}

\* C1: when sync_account_from_api is applied to the payload of the call
\* before it (neither call losing the database), the accounts and
\* account_snapshots rows are, stamps aside, those the first apply left, and
\* the transactions table has as many rows as the first apply left.
SyncIdempotent ==
  (CallEnded /\ repeat /\ error # "DatabaseError") =>
     /\ Unstamped(accounts, "updated_at") = Unstamped(before.accounts, "updated_at")
     /\ Cardinality(accounts) = Cardinality(before.accounts)
     /\ Unstamped(account_snapshots, "snapshot_taken_at")
          = Unstamped(before.account_snapshots, "snapshot_taken_at")
     /\ Cardinality(account_snapshots) = Cardinality(before.account_snapshots)
     /\ Cardinality(transactions) = Cardinality(before.transactions)

\* the second apply wrote all three tables again, from a store that other
\* syncs had filled before the first apply
SyncIdempotentWitness ==
  /\ CallEnded /\ repeat /\ error = "none"
  /\ calls >= 3
  /\ HasTransactions(account_data)
  /\ accounts # before.accounts
  /\ account_snapshots # before.account_snapshots
  /\ transactions # before.transactions
  /\ Cardinality(before.accounts) = 2

\* C2: when a run of sync_all_accounts stops on a KeyError in the batch of
\* one account, every other account of the response has been synced by
\* that run, wherever it stands in the response.
PartialFailureIsolation ==
  (/\ pc = "idle"
   /\ error = "KeyError"
   /\ raised_in = "update_transactions_table"
   /\ k <= Len(api_response)) =>
     \A a \in 1..Len(api_response) :
        api_response[a]["id"] # api_response[k]["id"] =>
           /\ a \in done
           /\ \E r \in accounts : r.id = api_response[a]["id"]
           /\ \E r \in account_snapshots : r.account_id = api_response[a]["id"]

\* C3: a batch that holds a record update_transactions_table cannot write
\* raises, a call that raised in update_transactions_table for any reason
\* leaves the transactions table as it was before it, and the table only
\* differs after a call that did not raise.
BatchAtomic ==
  CallEnded =>
     /\ (/\ ReachedTransactions
         /\ \E j \in 1..Len(Batch) : TxnException(Batch[j]) # "none")
          => /\ error # "none"
             /\ raised_in = "update_transactions_table"
     /\ raised_in = "update_transactions_table"
          => transactions = before.transactions
     /\ transactions # before.transactions => error = "none"

\* the second record of a batch raised after the first one had been
\* executed as a row the table did not hold
BatchAtomicWitness ==
  /\ CallEnded
  /\ raised_in = "update_transactions_table"
  /\ error = "KeyError"
  /\ i = 2
  /\ TxnException(Batch[1]) = "none"
  /\ \A r \in transactions : r.id # Batch[1]["id"]

\* C4: a call of sync_account_from_api that raised, in whichever of its
\* three steps, has persisted nothing of its own.
AccountUnitOfWork ==
  (CallEnded /\ error # "none") =>
     /\ accounts = before.accounts
     /\ account_snapshots = before.account_snapshots
     /\ transactions = before.transactions

\* update_accounts_table has just returned to sync_account_from_api
AfterAccountsUpsert == pc = "snapshots"

\* update_account_snapshots_table has just returned
AfterSnapshotsUpsert == pc = "transactions"

\* NOW() of the database transaction that ran last
LastStamp == clock - 1

AccountRowsOf(table, id) == {r \in table : r.id = id}

\* the accounts row of the ORIGINAL C5: every attribute, currency included,
\* is the one passed
AccountAllPassed(d) ==
  [id |-> d["id"], name |-> d["name"], currency |-> d["currency"],
   balance |-> Float(d["balance"]),
   available_balance |-> Float(d["available_balance"]),
   balance_date |-> to_timestamp(d["balance_date"]), updated_at |-> LastStamp]

\* C5 as first stated: after update_accounts_table on an account ID that had
\* a row, name, currency, balance, available balance and balance date of the
\* row are the values passed and updated_at is stamped.
AccountUpsertOverwritesAll ==
  (AfterAccountsUpsert /\ AccountRowsOf(before.accounts, account_data["id"]) # {}) =>
     AccountRowsOf(accounts, account_data["id"]) = {AccountAllPassed(account_data)}

\* C5: after update_accounts_table on an account ID that had a row, name,
\* balance, available balance and balance date of the row are the values
\* passed and updated_at is stamped; currency is not in the SET list and
\* keeps the value the row had.
AccountUpsertOverwrites ==
  AfterAccountsUpsert =>
     \A old \in AccountRowsOf(before.accounts, account_data["id"]) :
        AccountRowsOf(accounts, account_data["id"])
          = {[AccountAllPassed(account_data) EXCEPT !.currency = old.currency]}

\* the call changed name, balance, available balance and balance date of a
\* stored row and passed another currency than the stored one
AccountUpsertOverwritesWitness ==
  /\ AfterAccountsUpsert
  /\ \E old \in AccountRowsOf(before.accounts, account_data["id"]) :
       /\ old.name # account_data["name"]
       /\ old.currency # account_data["currency"]
       /\ old.balance # Float(account_data["balance"])
       /\ old.available_balance # Float(account_data["available_balance"])
       /\ old.balance_date # to_timestamp(account_data["balance_date"])
       /\ old.updated_at # LastStamp

\* C6: accounts holds one row for each account ID whose upsert committed and
\* none for any other; an upsert on a stored ID sets the balance passed,
\* keeps the name when the same name is passed, adds no row and leaves the
\* rows of the other accounts as they were.
OneAccountRowPerId ==
  /\ \A id \in AccountIds :
       Cardinality(AccountRowsOf(accounts, id)) = IF id \in synced THEN 1 ELSE 0
  /\ AfterAccountsUpsert =>
       \A old \in AccountRowsOf(before.accounts, account_data["id"]) :
          /\ \A r \in AccountRowsOf(accounts, account_data["id"]) :
               /\ r.balance = Float(account_data["balance"])
               /\ account_data["name"] = old.name => r.name = old.name
          /\ Cardinality(accounts) = Cardinality(before.accounts)
          /\ accounts \ AccountRowsOf(accounts, account_data["id"])
               = before.accounts \ {old}

\* balance 100.00 re-synced as 150.00 under the same name, next to the row
\* of another account
OneAccountRowPerIdWitness ==
  /\ AfterAccountsUpsert
  /\ \E old \in AccountRowsOf(before.accounts, account_data["id"]) :
       /\ old.balance = 10000
       /\ account_data["balance"] = "150.00"
       /\ old.name = account_data["name"]
  /\ \E r \in accounts : r.id # account_data["id"]

SnapshotRowsOf(table, id, date) ==
  {r \in table : r.account_id = id /\ r.balance_date = date}

\* C7: account_snapshots never holds two rows of one (account ID, balance
\* date); after update_account_snapshots_table the row of the key passed is
\* the one row of that key and holds the balances passed, every other row
\* is as it was, and the table has one row more exactly when the key is new.
SnapshotTimeSeries ==
  /\ \A r1, r2 \in account_snapshots :
       (r1.account_id = r2.account_id /\ r1.balance_date = r2.balance_date)
         => r1 = r2
  /\ AfterSnapshotsUpsert =>
       LET d == account_data
           date == to_timestamp(d["balance_date"])
           old == SnapshotRowsOf(before.account_snapshots, d["id"], date)
           new == SnapshotRowsOf(account_snapshots, d["id"], date)
       IN  /\ new = {[account_id |-> d["id"],
                      balance |-> Float(d["balance"]),
                      available_balance |-> Float(d["available_balance"]),
                      balance_date |-> date,
                      snapshot_taken_at |-> LastStamp]}
           /\ account_snapshots \ new = before.account_snapshots \ old
           /\ Cardinality(account_snapshots)
                = Cardinality(before.account_snapshots) + (IF old = {} THEN 1 ELSE 0)

\* a balance date synced again with another balance, while the account has
\* a snapshot of another balance date
SnapshotTimeSeriesWitness ==
  /\ AfterSnapshotsUpsert
  /\ \E old \in before.account_snapshots :
       /\ old.account_id = account_data["id"]
       /\ old.balance_date = to_timestamp(account_data["balance_date"])
       /\ old.balance # Float(account_data["balance"])
  /\ \E r \in account_snapshots :
       /\ r.account_id = account_data["id"]
       /\ r.balance_date # to_timestamp(account_data["balance_date"])

TransactionRowsOf(table, id) == {r \in table : r.id = id}

OneRowPerId(table) == \A r1, r2 \in table : r1.id = r2.id => r1 = r2

\* the last record of the batch that carries the ID of record j
Latest(batch, j) ==
  batch[CHOOSE n \in j..Len(batch) :
          /\ batch[n]["id"] = batch[j]["id"]
          /\ \A m \in (n + 1)..Len(batch) : batch[m]["id"] # batch[j]["id"]]

BatchIds == {Batch[j]["id"] : j \in 1..Len(Batch)}

\* the last call ran update_transactions_table and it returned
BatchWritten == CallEnded /\ error = "none" /\ HasTransactions(account_data)

\* C8: neither the transactions table nor its state inside an open scope
\* holds two rows of one ID; after a batch is committed each ID of the batch
\* has one row, holding posted, pending, amount, description, payee, memo
\* and transacted-at of the last record that carries the ID, the rows of all
\* other IDs are as they were, and the table grew by the new IDs only.
TransactionsInPlace ==
  /\ OneRowPerId(transactions)
  /\ OneRowPerId(cur)
  /\ BatchWritten =>
       /\ \A j \in 1..Len(Batch) :
            LET txn == Latest(Batch, j)
                rows == TransactionRowsOf(transactions, Batch[j]["id"])
            IN  /\ Cardinality(rows) = 1
                /\ \A r \in rows :
                     /\ r.posted = (txn["posted"] = 1)
                     /\ r.pending = Get(txn, "pending", FALSE)
                     /\ r.amount = Float(txn["amount"])
                     /\ r.description = Get(txn, "description", "")
                     /\ r.payee = Get(txn, "payee", "")
                     /\ r.memo = Get(txn, "memo", "")
                     /\ r.transacted_at = to_timestamp(txn["transacted_at"])
                     /\ r.last_updated_at = LastStamp
       /\ {r \in transactions : r.id \notin BatchIds}
            = {r \in before.transactions : r.id \notin BatchIds}
       /\ Cardinality(transactions)
            = Cardinality(before.transactions)
              + Cardinality({id \in BatchIds :
                               TransactionRowsOf(before.transactions, id) = {}})

\* a stored pending, unposted transaction came again posted, not pending and
\* with another amount and payee
TransactionsInPlaceWitness ==
  /\ BatchWritten
  /\ \E old \in before.transactions : \E r \in transactions :
       /\ r.id = old.id
       /\ old.pending /\ ~old.posted
       /\ ~r.pending /\ r.posted
       /\ r.amount # old.amount
       /\ r.payee # old.payee
  /\ Cardinality(transactions) = 2

\* the last call reached update_transactions_table with a batch whose
\* records all carry id, a numeric amount and transacted_at, and the
\* database did not fail
PostedCase ==
  /\ CallEnded
  /\ ReachedTransactions
  /\ HasTransactions(account_data)
  /\ error # "DatabaseError"
  /\ \A j \in 1..Len(Batch) :
       /\ {"id", "amount", "transacted_at"} \subseteq DOMAIN Batch[j]
       /\ IsFloat(Batch[j]["amount"])

\* the posted flags stored under the ID of record j
StoredPosted(j) ==
  {r.posted : r \in TransactionRowsOf(transactions, Batch[j]["id"])}

\* C9 as first stated: the upsert of such a batch does not fail, and the
\* stored posted flag is true for posted 1 and false for posted 0, any other
\* value, or no posted key.
PostedCoercion ==
  PostedCase =>
     /\ error = "none"
     /\ \A j \in 1..Len(Batch) :
          StoredPosted(j) = {/\ "posted" \in DOMAIN Latest(Batch, j)
                             /\ Latest(Batch, j)["posted"] = 1}

\* C9: when every record of such a batch has a posted key the upsert does
\* not fail and the stored posted flag is true for posted 1 and false for 0
\* or any other value; a record without a posted key raises KeyError and
\* nothing of the batch is stored.
PostedCoercionPresent ==
  PostedCase =>
     IF \A j \in 1..Len(Batch) : "posted" \in DOMAIN Batch[j]
     THEN /\ error = "none"
          /\ \A j \in 1..Len(Batch) :
               StoredPosted(j) = {Latest(Batch, j)["posted"] = 1}
     ELSE /\ error = "KeyError"
          /\ raised_in = "update_transactions_table"
          /\ transactions = before.transactions

\* posted 2 was stored as false over a row that had posted true
PostedCoercionPresentWitness ==
  /\ PostedCase
  /\ error = "none"
  /\ \E j \in 1..Len(Batch) : Batch[j]["posted"] = 2
  /\ \E old \in before.transactions : \E r \in transactions :
       r.id = old.id /\ old.posted /\ ~r.posted

\* C10: a batch whose records all carry the required keys is stored, and
\* for each ID the row holds, for each of description, payee and memo, the
\* value of the last record that carries the ID or the empty string when
\* that record has no such key, and pending likewise, false without the key.
FieldDefaulting ==
  (PostedCase /\ \A j \in 1..Len(Batch) : "posted" \in DOMAIN Batch[j]) =>
     /\ error = "none"
     /\ \A j \in 1..Len(Batch) :
          LET txn == Latest(Batch, j)
              rows == TransactionRowsOf(transactions, Batch[j]["id"])
          IN  /\ rows # {}
              /\ \A r \in rows :
                   /\ \A key \in TextKeys :
                        r[key] = IF key \in DOMAIN txn THEN txn[key] ELSE ""
                   /\ r.pending = IF "pending" \in DOMAIN txn THEN txn["pending"]
                                  ELSE FALSE

\* a record without description, payee, memo and pending was stored over a
\* row that had text and was pending
FieldDefaultingWitness ==
  /\ BatchWritten
  /\ \E j \in 1..Len(Batch) :
       DOMAIN Batch[j] \cap (TextKeys \cup {"pending"}) = {}
  /\ \E old \in before.transactions : \E r \in transactions :
       /\ r.id = old.id
       /\ old.description # "" /\ old.payee # "" /\ old.memo # "" /\ old.pending
       /\ r.description = "" /\ r.payee = "" /\ r.memo = "" /\ ~r.pending

\* C13: no step of a sync run, successful or failed, removes an account ID,
\* an (account ID, balance date) snapshot key or a transaction ID from the
\* committed tables.
NoDeletion ==
  [][/\ AccountIdsOf(accounts) \subseteq AccountIdsOf(accounts')
     /\ SnapshotKeysOf(account_snapshots) \subseteq SnapshotKeysOf(account_snapshots')
     /\ TransactionIdsOf(transactions) \subseteq TransactionIdsOf(transactions')]_vars

\* a call failed in its batch after other calls had filled the three
\* tables, and the rows are all there
NoDeletionWitness ==
  /\ CallEnded
  /\ error # "none"
  /\ raised_in = "update_transactions_table"
  /\ i = 2
  /\ Cardinality(accounts) = 2
  /\ account_snapshots # {}
  /\ Cardinality(transactions) = 2

\* C17: in every state of a sync run, also inside an open scope and after a
\* failed step, every snapshot row and every transaction row carries the ID
\* of a committed accounts row.
ReferentialIntegrity ==
  /\ \A r \in account_snapshots : r.account_id \in AccountIdsOf(accounts)
  /\ \A r \in transactions \cup cur : r.account_id \in AccountIdsOf(accounts)

\* a call failed after its account upsert, with snapshots and transactions
\* of two accounts stored
ReferentialIntegrityWitness ==
  /\ CallEnded
  /\ error # "none"
  /\ {r.account_id : r \in account_snapshots} = AccountIds
  /\ {r.account_id : r \in transactions} = AccountIds

\* C18 as stated: whenever no sync_account_from_api call is in progress,
\* also after one that raised, every accounts row has a snapshot row of its
\* ID and balance date with the same balance and available balance.
AccountSnapshotAgreement ==
  pc \in {"idle", "loop"} =>
     \A a \in accounts :
        \E r \in account_snapshots :
           /\ r.account_id = a.id
           /\ r.balance_date = a.balance_date
           /\ r.balance = a.balance
           /\ r.available_balance = a.available_balance

\* C19: no step changes the account_id of a stored transaction ID, in the
\* committed table or inside the open scope, also when the ID comes again
\* in the batch of another account.
OwnerFixed ==
  [][/\ \A r \in transactions : \A r2 \in transactions' \cup cur' :
          r2.id = r.id => r2.account_id = r.account_id
     /\ \A r \in cur : \A r2 \in cur' :
          r2.id = r.id => r2.account_id = r.account_id]_vars

\* the batch of account B carried an ID stored for account A and was
\* committed: the row changed and is still of account A
OwnerFixedWitness ==
  /\ BatchWritten
  /\ account_data["id"] = "B"
  /\ \E old \in before.transactions : \E r \in transactions :
       /\ r.id = old.id
       /\ r.id \in BatchIds
       /\ r.account_id = "A"
       /\ r.memo # old.memo

\* the agent holds the list get_todays_transactions returned
QueryReturned == pc = "agent" /\ query.status = "returned"

\* stored transactions whose transacted-at is on the day before current_date
OfTargetDay(current_date) ==
  {t \in transactions : t.transacted_at \div 86400 = current_date - 1}

\* the record the query owes for stored transaction t
OwedRecord(t) ==
  [account_name |-> (CHOOSE a \in accounts : a.id = t.account_id).name,
   amount |-> t.amount, description |-> t.description, payee |-> t.payee,
   memo |-> t.memo, transacted_at |-> t.transacted_at, pending |-> t.pending]

RaisedIn(function) == CallEnded /\ error # "none" /\ raised_in = function

\* C12: outside a get_db scope the connection is closed, whichever way the
\* scope was left; the writes of a scope are in the table exactly when its
\* body ran to the end, and a scope that raised leaves its table as it was
\* before the call and the exception with the caller.
ScopedConnection ==
  /\ pc # "txn_loop" => conn = "closed"
  /\ pc = "txn_loop" => conn = "open" /\ transactions = before.transactions
  /\ RaisedIn("update_accounts_table") => accounts = before.accounts
  /\ RaisedIn("update_account_snapshots_table") =>
       account_snapshots = before.account_snapshots
  /\ RaisedIn("update_transactions_table") => transactions = before.transactions
  /\ raised_in # "none" => error # "none"
  /\ AfterAccountsUpsert =>
       LET d == account_data
           row == AccountRow(d["id"], d["name"], d["currency"], Float(d["balance"]),
                             Float(d["available_balance"]), d["balance_date"],
                             LastStamp)
       IN  accounts = AccountsUpsert(before.accounts, row, LastStamp)
  /\ AfterSnapshotsUpsert =>
       LET d == account_data
           row == SnapshotRow(d["id"], Float(d["balance"]),
                              Float(d["available_balance"]), d["balance_date"],
                              LastStamp)
       IN  account_snapshots =
             SnapshotsUpsert(before.account_snapshots, row, LastStamp)
  /\ BatchWritten => \A x \in BatchIds : \E r \in transactions :
       r.id = x /\ r.last_updated_at = LastStamp
  /\ pc = "agent" => /\ conn = "closed"
                     /\ query.status = "raised" => query.rows = <<>>

\* the batch scope was left by an exception after it had written a row over
\* a stored one: the connection is closed and the stored row is back
ScopedConnectionWitness ==
  /\ RaisedIn("update_transactions_table")
  /\ i = 2
  /\ conn = "closed"
  /\ transactions # {}
  /\ account_data["transactions"][1]["id"] \in TransactionIdsOf(transactions)

\* C16 as stated: update_account_snapshots_table returns 0 when the table
\* already has a snapshot of the account and balance date, 1 when it has not.
SnapshotReturnsZeroIfExists ==
  AfterSnapshotsUpsert =>
    row_count =
      IF <<account_data["id"], to_timestamp(account_data["balance_date"])>>
            \in SnapshotKeysOf(before.account_snapshots)
      THEN 0 ELSE 1

\* both scripts left sync_account_from_api
AllEnded == \A p \in Procs : proc[p].pc \in {"returned", "raised"}

\* the IDs of the batch sync_account_from_api(data) passes on
BatchIdsOf(data) ==
  IF HasTransactions(data)
  THEN {data["transactions"][j]["id"] : j \in 1..Len(data["transactions"])}
  ELSE {}

DifferentAccounts ==
  /\ proc[1].account_data["id"] # proc[2].account_data["id"]
  /\ BatchIdsOf(proc[1].account_data) \cap BatchIdsOf(proc[2].account_data) = {}

SameAccount == proc[1].account_data["id"] = proc[2].account_data["id"]

CurrentTables ==
  [accounts |-> accounts, account_snapshots |-> account_snapshots,
   transactions |-> transactions]

\* the three tables with the columns stamped by NOW() blanked
UnstampedTables(t) ==
  [accounts |-> Unstamped(t.accounts, "updated_at"),
   account_snapshots |-> Unstamped(t.account_snapshots, "snapshot_taken_at"),
   transactions |-> Unstamped(t.transactions, "last_updated_at")]

\* C14: when two sync_account_from_api executions on different account IDs
\* and disjoint transaction IDs have ended, however their database
\* operations were interleaved, both returned and the three tables are,
\* stamps aside, what running the two one after the other, in either
\* order, leaves.
InterleavingAsSequential ==
  (AllEnded /\ DifferentAccounts) =>
     /\ \A p \in Procs : proc[p].pc = "returned"
     /\ \A p \in Procs :
          UnstampedTables(CurrentTables) =
            UnstampedTables(
              SyncedTables(SyncedTables(before, proc[p].account_data, 0),
                           proc[Other(p)].account_data, 0))

\* the two runs took turns at every step, on a database that had rows, and
\* each wrote a batch
InterleavingAsSequentialWitness ==
  /\ AllEnded
  /\ DifferentAccounts
  /\ before.transactions # {}
  /\ Len(commits) = 6
  /\ \A n \in 1..5 : commits[n][1] # commits[n + 1][1]

\* the script whose commit of the table is the last among the writers
LastCommitter(table, writers) ==
  LET ns == {n \in DOMAIN commits : commits[n][1] \in writers /\ commits[n][2] = table}
  IN  commits[CHOOSE n \in ns : \A m \in ns : m <= n][1]

\* the scripts whose batch carries transaction ID x and was committed
BatchWriters(x) ==
  {p \in Procs :
     /\ x \in BatchIdsOf(proc[p].account_data)
     /\ \E n \in DOMAIN commits : commits[n] = <<p, "transactions">>}

\* the last record of ID x in the batch of data
LatestOf(data, x) ==
  LET batch == data["transactions"]
  IN  batch[CHOOSE n \in 1..Len(batch) :
              /\ batch[n]["id"] = x
              /\ \A m \in (n + 1)..Len(batch) : batch[m]["id"] # x]

\* two IDs come in one order in the batch of p and in the other order in
\* the batch of the other script
OppositeOrder(p) ==
  LET b1 == proc[p].account_data["transactions"]
      b2 == proc[Other(p)].account_data["transactions"]
  IN  \E j1, j2 \in 1..Len(b1) : \E n1, n2 \in 1..Len(b2) :
        /\ j1 < j2 /\ n1 < n2
        /\ b1[j1]["id"] = b2[n2]["id"]
        /\ b1[j2]["id"] = b2[n1]["id"]

\* no key has two rows, and each row holds what the run that committed it
\* last passed: the columns of the SET lists, never a part of them
RowsOfLastCommitter ==
  /\ \A r1, r2 \in accounts : r1.id = r2.id => r1 = r2
  /\ \A r1, r2 \in account_snapshots :
       (r1.account_id = r2.account_id /\ r1.balance_date = r2.balance_date) => r1 = r2
  /\ OneRowPerId(transactions)
  /\ LET d == proc[LastCommitter("accounts", Procs)].account_data IN
       \E r \in accounts :
          /\ r.id = d["id"]
          /\ r.name = d["name"]
          /\ r.balance = Float(d["balance"])
          /\ r.available_balance = Float(d["available_balance"])
          /\ r.balance_date = to_timestamp(d["balance_date"])
  /\ \A p \in Procs :
       LET date == proc[p].account_data["balance_date"]
           writers == {q \in Procs : proc[q].account_data["balance_date"] = date}
           d == proc[LastCommitter("account_snapshots", writers)].account_data
       IN  \E r \in account_snapshots :
             /\ r.account_id = d["id"]
             /\ r.balance_date = to_timestamp(date)
             /\ r.balance = Float(d["balance"])
             /\ r.available_balance = Float(d["available_balance"])
  /\ \A x \in BatchIdsOf(proc[1].account_data) \cup BatchIdsOf(proc[2].account_data) :
       IF BatchWriters(x) = {}
       THEN TransactionRowsOf(transactions, x) = TransactionRowsOf(before.transactions, x)
       ELSE LET d == proc[LastCommitter("transactions", BatchWriters(x))].account_data
                row == TransactionRow(d["id"], LatestOf(d, x), 0)
            IN  \E r \in transactions :
                  /\ r.id = x
                  /\ [r EXCEPT !.last_updated_at = 0] = row

====
